---- MODULE Spec2Model ----
(***************************************************************************)
(* Quibble: the per-session transcription handler (accumulating variant),  *)
(* its silence timer and the guards of QuizEngine.processText.             *)
(*                                                                         *)
(* Texts are sequences of one-character strings, so that trimming, lower-  *)
(* casing, substring search and the sentence-end regular expression are    *)
(* computed character by character, as the code computes them.             *)
(***************************************************************************)
EXTENDS Integers, Sequences, FiniteSets, TLC

VARIABLES
    accumulatedTranscript,  \* let accumulatedTranscript = ""
    lastProcessedLength,    \* let lastProcessedLength = 0
    lastAnswerId,           \* let lastAnswerId: string | null = null
    clearDisplayTimer,      \* TRUE while a setTimeout of resetClearTimer is pending
    showLive,               \* the setting 'show_live_transcription'
    apiKey,                 \* QuizEngine.apiKey is non-empty
    display,                \* what the glasses show (last successful layout call)
    inflight,               \* processText calls awaiting the provider, in dispatch order
    handled,                \* number of segments handled so far
    ev,                     \* what the last step did (observation only)
    timers,                 \* the scheduled timeouts: [id, remaining]
    timerHandle,            \* the handle in clearDisplayTimer, 0 for null
    quiet,                  \* time since the last segment, up to ClearDelay
    engine,                 \* one invocation of QuizEngine.processText
    reply,                  \* the content of the last response a call returned from
    round,                  \* the dispatches since the last reset (observation only)
    scan,                   \* a text and the sentence end the regular expression finds in it
    threshold,              \* the session of the length-threshold handler (index.ts)
    order,                  \* the order of the requests and of their answers (observation only)
    life                    \* the session's place in userSessionsMap and its cleanup handler

vars == <<accumulatedTranscript, lastProcessedLength, lastAnswerId, clearDisplayTimer,
          showLive, apiKey, display, inflight, handled, ev,
          timers, timerHandle, quiet, engine, reply, round, scan, threshold, order, life>>

\* The variables of the timed view of the silence timer.
timeVars == <<timers, timerHandle, quiet>>

\* The variables of the view of one processText invocation.
engineVars == <<engine, reply>>

\* The variables outside the session and its timer: they change in their own
\* views only.
viewVars == <<engine, reply, round, scan, threshold, order, life>>

-----------------------------------------------------------------------------
(* Bounds of the model *)

\* A session handles at most MaxSegments transcription events.
MaxSegments == 3
\* The longest text the sentence-end detection is applied to on its own.
MaxTextLen == 4

-----------------------------------------------------------------------------
(* Program constants *)

\* QuizEngine.processText: text.trim().length < 10
MinTextLength == 10
\* handleTranscription: fullText.length > 50 ? "..." + last 50 characters
QuestionTail == 50
\* resetClearTimer: setTimeout(..., 3000), in milliseconds
ClearDelay == 3000

\* "for 10 points"
CuePhrase == <<"f","o","r"," ","1","0"," ","p","o","i","n","t","s">>

-----------------------------------------------------------------------------
(* Inputs *)

Blank    == <<" ">>
CapitalOf == <<"W","h","a","t"," ","i","s"," ","t","h","e"," ","c","a","p","i","t","a","l"," ","o","f">>
NoYes    == <<"N","o","."," ","Y","e","s">>
ForTen   == <<"F","o","r"," ","1","0"," ","P","o","i","n","t","s",".">>

\* The segment texts the speech recogniser delivers in the model.
Segments == {Blank, CapitalOf, NoYes, ForTen}

\* The entities the provider may name.
Paris == <<"P","a","r","i","s">>
Rome  == <<"R","o","m","e">>
Entities == {Paris, Rome}

\* null: no text is this one-element sequence.
Null == <<"null">>

-----------------------------------------------------------------------------
(* String functions of JavaScript, on sequences of characters *)

Whitespace == {" ", "\t", "\n", "\r"}

UpperCase == <<"A","B","C","D","E","F","G","H","I","J","K","L","M",
               "N","O","P","Q","R","S","T","U","V","W","X","Y","Z">>
LowerCase == <<"a","b","c","d","e","f","g","h","i","j","k","l","m",
               "n","o","p","q","r","s","t","u","v","w","x","y","z">>

toLowerChar(c) ==
    IF \E i \in 1..Len(UpperCase) : UpperCase[i] = c
    THEN LowerCase[CHOOSE i \in 1..Len(UpperCase) : UpperCase[i] = c]
    ELSE c

\* String.prototype.toLowerCase
toLowerCase(s) == [i \in 1..Len(s) |-> toLowerChar(s[i])]

\* String.prototype.trim
trim(s) ==
    LET keep == {i \in 1..Len(s) : s[i] \notin Whitespace}
    IN  IF keep = {} THEN <<>>
        ELSE LET lo == CHOOSE i \in keep : \A j \in keep : i <= j
                 hi == CHOOSE i \in keep : \A j \in keep : j <= i
             IN  SubSeq(s, lo, hi)

\* String.prototype.includes
includes(s, sub) ==
    \E i \in 0..(Len(s) - Len(sub)) : SubSeq(s, i + 1, i + Len(sub)) = sub

\* String.prototype.substring(from), from a 0-based index
substring(s, from) == SubSeq(s, from + 1, Len(s))

-----------------------------------------------------------------------------
(* The layouts of the display *)

TextWall(t) == [kind |-> "text", top |-> t, bottom |-> <<>>]
DoubleTextWall(t, b) == [kind |-> "double", top |-> t, bottom |-> b]

\* Faulty variant: the answer without its label.
AnswerLineBare(answer) == answer

\* `Answer: ${answer}`
AnswerLine(answer) == <<"A","n","s","w","e","r",":"," ">> \o answer

\* fullText.length > 50 ? "..." + fullText.substring(fullText.length - 50) : fullText
questionText(fullText) ==
    IF Len(fullText) > QuestionTail
    THEN <<".", ".", ".">> \o substring(fullText, Len(fullText) - QuestionTail)
    ELSE fullText

\* `No quiz match for: "${text}"`
NoQuizMatch(text) ==
    <<"N","o"," ","q","u","i","z"," ","m","a","t","c","h"," ","f","o","r",":"," ","\"">>
        \o text \o <<"\"">>

\* Faulty variant: the live display drops the answer.
LiveLayoutTextOnly(fullText, answerId) == TextWall(fullText)

\* The live display of handleTranscription: the answer stays visible if there is one.
LiveLayout(fullText, answerId) ==
    IF answerId # Null
    THEN DoubleTextWall(questionText(fullText), AnswerLine(answerId))
    ELSE TextWall(fullText)

-----------------------------------------------------------------------------
(* handleTranscription, synchronous part *)

\* text && text.trim().length > 0
hasText(text) == Len(text) > 0 /\ Len(trim(text)) > 0

\* Faulty variant: the segment is appended without the separating space.
joinTextNoSpace(acc, text) == acc \o text

\* fullText = accumulatedTranscript ? `${accumulatedTranscript} ${text}` : text
joinText(acc, text) == IF Len(acc) > 0 THEN acc \o <<" ">> \o text ELSE text

\* let fullText = accumulatedTranscript; if (text && ...) fullText = ...
FullText(acc, text) == IF hasText(text) THEN joinText(acc, text) ELSE acc

NoScan == [text |-> <<>>, end |-> 0]

\* calls: for each call in inflight, the number of its request in the order the
\* requests were sent; count: the requests sent so far; shownFor: the number of the
\* request whose answer is in lastAnswerId, 0 for none; stale: the last step stored
\* the answer of a request older than the one whose answer it replaced.
NoOrder == [calls |-> <<>>, count |-> 0, shownFor |-> 0, stale |-> FALSE]

\* phase: "none" before onSession, "active", "ended"; hasDisplay:
\* session.capabilities.hasDisplay; inMap: userSessionsMap has an entry for the
\* user; cleanup: onSession reached addCleanupHandler.
NoLife == [phase |-> "none", hasDisplay |-> FALSE, inMap |-> FALSE, cleanup |-> FALSE]

\* The session of the length-threshold handler as onSession leaves it.
\* lastProcessedLength: the variable of that name; op, length, isFinal, called,
\* preLpl, first: the last step, the length of its text, whether it called
\* processText, lastProcessedLength when it began and whether no call had been made
\* since the session began or the timer fired; count: the segments handled.
NoThreshold == [lastProcessedLength |-> 0, op |-> "init", length |-> 0,
                isFinal |-> FALSE, called |-> FALSE, preLpl |-> 0, first |-> TRUE,
                fresh |-> TRUE, count |-> 0]

\* Faulty variant: /[.?!]/g, every punctuation mark ends a sentence.
sentenceEndMatchesAnywhere(s) == {i \in 0..(Len(s) - 1) : s[i + 1] \in {".", "?", "!"}}

\* The indices (0-based) at which /[.?!](?:\s|$)/g matches in s.
sentenceEndMatches(s) ==
    {i \in 0..(Len(s) - 1) :
        /\ s[i + 1] \in {".", "?", "!"}
        /\ (i + 1 = Len(s) \/ s[i + 2] \in Whitespace)}

\* lastMatchIndex after the exec loop: the last match, -1 when there is none.
lastMatchIndex(s) ==
    LET m == sentenceEndMatches(s)
    IN  IF m = {} THEN -1 ELSE CHOOSE i \in m : \A j \in m : j <= i

\* currentSentenceEnd = lastMatchIndex !== -1 ? lastMatchIndex + 1 : 0
currentSentenceEnd(s) == IF lastMatchIndex(s) # -1 THEN lastMatchIndex(s) + 1 ELSE 0

\* Faulty variant: the comparison admits an unchanged boundary.
shouldProcessAtBoundary(isFinal, sentenceEnd, processed) ==
    isFinal \/ sentenceEnd >= processed

\* shouldProcess = isFinal || (currentSentenceEnd > lastProcessedLength)
shouldProcess(isFinal, sentenceEnd, processed) == isFinal \/ sentenceEnd > processed

\* Faulty variant: the cue is searched without lower-casing the text.
cueDetectedCaseSensitive(fullText) == includes(fullText, CuePhrase)

\* fullText.toLowerCase().includes("for 10 points")
cueDetected(fullText) == includes(toLowerCase(fullText), CuePhrase)

\* Faulty variant: every segment with text is committed, final or not.
commitEverySegment(acc, text, fullText, isFinal) ==
    IF hasText(text)
    THEN IF isFinal /\ cueDetected(fullText) THEN <<>> ELSE fullText
    ELSE acc

\* Faulty variant: a final segment replaces the transcript instead of extending it.
commitLatestSegment(acc, text, fullText, isFinal) ==
    IF isFinal /\ hasText(text) THEN text ELSE acc

\* if (isFinal) { if (text && ...) { cue ? "" : fullText } }: the new accumulatedTranscript
commitTranscript(acc, text, fullText, isFinal) ==
    IF isFinal /\ hasText(text)
    THEN IF cueDetected(fullText) THEN <<>> ELSE fullText
    ELSE acc

\* the same block's effect on lastProcessedLength (reset to 0 on the cue)
commitLength(processed, text, fullText, isFinal) ==
    IF isFinal /\ hasText(text) /\ cueDetected(fullText) THEN 0 ELSE processed

\* Faulty variant: the checkpoint of a non-final dispatch counts the character after the
\* punctuation as well (the end of the match instead of the punctuation).
checkpointMatchEnd(isFinal, fullText, sentenceEnd) ==
    IF isFinal THEN Len(fullText) ELSE sentenceEnd + 1

\* Faulty variant: a dispatch leaves the checkpoint at the start of the text.
checkpointKept(isFinal, fullText, sentenceEnd) == 0

\* lastProcessedLength = isFinal ? fullText.length : currentSentenceEnd
checkpoint(isFinal, fullText, sentenceEnd) ==
    IF isFinal THEN Len(fullText) ELSE sentenceEnd

\* Faulty variant: a non-final dispatch hands over the sentence-terminated prefix only.
dispatchedPrefix(fullText, sentenceEnd, isFinal) ==
    IF isFinal THEN fullText ELSE SubSeq(fullText, 1, sentenceEnd)

\* await quizEngine.processText(fullText): the text handed to processText.
dispatchedText(fullText, sentenceEnd, isFinal) == fullText

-----------------------------------------------------------------------------
(* QuizEngine.processText, up to the first request *)

\* Faulty variant: only the empty text is rejected.
tooShortEmptyOnly(text) == Len(text) = 0

\* if (!text || text.trim().length < 10) return null
tooShort(text) == Len(text) = 0 \/ Len(trim(text)) < MinTextLength

-----------------------------------------------------------------------------
(* Observation of the last step *)

\* op: the step taken; text, isFinal: the segment handled; fullText: the handler's
\* local fullText; called: processText was invoked, with text `sent`; fetched: it
\* sent a request; result: what a returning call returned; shown: the layout call
\* that reached the display; preAcc, preLpl, preAns: accumulatedTranscript,
\* lastProcessedLength and lastAnswerId when the step began; fresh: the step began
\* with the session as onSession left it; before: op, text, isFinal and called of
\* the step before this one; preQuiet: the time since the last segment when the
\* step began.
NoBefore == [op |-> "init", text |-> <<>>, isFinal |-> FALSE, called |-> FALSE,
             fresh |-> FALSE]

NoEv == [op |-> "init", text |-> <<>>, isFinal |-> FALSE, fullText |-> <<>>,
         called |-> FALSE, sent |-> <<>>, fetched |-> FALSE, result |-> Null,
         shown |-> "none", preAcc |-> <<>>, preLpl |-> 0, preAns |-> Null,
         preQuiet |-> 0, fresh |-> FALSE, before |-> NoBefore]

InitialDisplay == TextWall(Blank)

\* texts: the texts processText was invoked with since the last reset (the cue
\* phrase or the silence timer); last: the latest of them, as a sequence of at most
\* one text; same: the latest handler invoked processText with the text in last;
\* again: with a text in texts.
NoRound == [texts |-> {}, last |-> <<>>, same |-> FALSE, again |-> FALSE]

\* The session is as onSession left it.
Fresh ==
    /\ accumulatedTranscript = <<>>
    /\ lastProcessedLength = 0
    /\ lastAnswerId = Null
    /\ inflight = <<>>
    /\ display = InitialDisplay

\* The record a step leaves in ev: e, with the state the step began in.
Observed(e) ==
    [e EXCEPT !.preAcc = accumulatedTranscript, !.preLpl = lastProcessedLength,
              !.preAns = lastAnswerId, !.preQuiet = quiet, !.fresh = Fresh,
              !.before = [op |-> ev.op, text |-> ev.text, isFinal |-> ev.isFinal,
                          called |-> ev.called, fresh |-> ev.fresh]]

-----------------------------------------------------------------------------
(* QuizEngine.processText: the replies of the model and their parsing *)

\* The character U+0060, which a TLA+ string cannot hold.
Backtick == "U+0060"

\* 'NO MATCH' (8 characters)
ReplyNoMatch == <<"N","O"," ","M","A","T","C","H">>
\* 'no match' (8 characters)
ReplyNoMatchLower == <<"n","o"," ","m","a","t","c","h">>
\* 'RESET' (5 characters)
ReplyReset == <<"R","E","S","E","T">>
\* 'CHATTER' (7 characters)
ReplyChatter == <<"C","H","A","T","T","E","R">>
\* 'ANSWER: Paris' (13 characters)
ReplyAnswer == <<"A","N","S","W","E","R",":"," ","P","a","r","i","s">>
\* ' answer:  Rome ' (15 characters)
ReplyAnswerLower == <<" ","a","n","s","w","e","r",":"," "," ","R","o","m","e"," ">>
\* 'ANSWER: NO MATCH Records' (24 characters)
ReplyAnswerNoMatch == <<"A","N","S","W","E","R",":"," ","N","O"," ","M","A","T","C","H"," ","R","e","c","o","r","d","s">>
\* 'ANSWER: Rome' on a line of its own inside a fenced block (20 characters)
ReplyFenced == <<Backtick,Backtick,Backtick,"\n","A","N","S","W","E","R",":"," ","R","o","m","e","\n",Backtick,Backtick,Backtick>>
\* Paris between double quotes (7 characters)
ReplyQuoted == <<"\"","P","a","r","i","s","\"">>
\* 'The clue is too vague to tell, it could be Paris or Rome' (56 characters)
ReplyVerbose == <<"T","h","e"," ","c","l","u","e"," ","i","s"," ","t","o","o"," ","v","a","g","u","e"," ","t","o"," ","t","e","l","l",","," ","i","t"," ","c","o","u","l","d"," ","b","e"," ","P","a","r","i","s"," ","o","r"," ","R","o","m","e">>
\* 'It is a capital city.\nANSWER: Paris' (35 characters)
ReplyReasoned == <<"I","t"," ","i","s"," ","a"," ","c","a","p","i","t","a","l"," ","c","i","t","y",".","\n","A","N","S","W","E","R",":"," ","P","a","r","i","s">>

\* A response whose JSON has no choices[0].message.content (candidates[0]... for Gemini).
Absent == <<"undefined">>

Replies == {ReplyNoMatch, ReplyNoMatchLower, ReplyReset, ReplyChatter, ReplyAnswer,
            ReplyAnswerLower, ReplyAnswerNoMatch, ReplyFenced, ReplyQuoted, Paris,
            ReplyVerbose, ReplyReasoned, Absent}

NoMatchText == <<"N","O"," ","M","A","T","C","H">>
AnswerTag == <<"a","n","s","w","e","r",":">>
QuoteChars == {"\"", "'", Backtick}
LineTerminators == {"\n", "\r"}
\* contentText.length > 50
MaxUntaggedLength == 50

\* s.replace(/```/g, '')
RECURSIVE removeFences(_)
removeFences(s) ==
    IF Len(s) = 0 THEN s
    ELSE IF Len(s) >= 3 /\ s[1] = Backtick /\ s[2] = Backtick /\ s[3] = Backtick
         THEN removeFences(SubSeq(s, 4, Len(s)))
         ELSE <<s[1]>> \o removeFences(Tail(s))

fenceAt(s, i) == i + 2 <= Len(s) /\ s[i] = Backtick /\ s[i+1] = Backtick /\ s[i+2] = Backtick

\* s.replace(/```[\s\S]*?```/g, m => m.replace(/```/g, '').trim())
RECURSIVE stripFences(_)
stripFences(s) ==
    LET opens == {i \in 1..Len(s) : fenceAt(s, i)}
    IN  IF opens = {} THEN s
        ELSE LET i == CHOOSE k \in opens : \A m \in opens : k <= m
                 closes == {j \in (i + 3)..Len(s) : fenceAt(s, j)}
             IN  IF closes = {} THEN s
                 ELSE LET j == CHOOSE k \in closes : \A m \in closes : k <= m
                      IN  SubSeq(s, 1, i - 1)
                          \o trim(removeFences(SubSeq(s, i, j + 2)))
                          \o stripFences(SubSeq(s, j + 3, Len(s)))

\* s.replace(/^["'`]+|["'`]+$/g, '')
stripQuotes(s) ==
    LET lead == CHOOSE k \in 0..Len(s) :
                    /\ \A i \in 1..k : s[i] \in QuoteChars
                    /\ k < Len(s) => s[k+1] \notin QuoteChars
        rest == SubSeq(s, lead + 1, Len(s))
        trail == CHOOSE k \in 0..Len(rest) :
                    /\ \A i \in (Len(rest) - k + 1)..Len(rest) : rest[i] \in QuoteChars
                    /\ k < Len(rest) => rest[Len(rest) - k] \notin QuoteChars
    IN  SubSeq(rest, 1, Len(rest) - trail)

\* rawText and contentText of the OpenAI engine; an absent content stays absent.
contentText(content) ==
    IF content = Absent THEN Absent ELSE trim(stripQuotes(stripFences(trim(content))))

\* contentText.match(/^ANSWER:\s*(.+)\s*$/im): the start of the first line that carries
\* the tag and has a character other than whitespace after it; 0 when there is none.
tagStarts(s) ==
    {p \in 1..Len(s) :
        /\ p = 1 \/ s[p-1] \in LineTerminators
        /\ p + Len(AnswerTag) - 1 <= Len(s)
        /\ toLowerCase(SubSeq(s, p, p + Len(AnswerTag) - 1)) = AnswerTag
        /\ \E q \in (p + Len(AnswerTag))..Len(s) : s[q] \notin Whitespace}

answerMatch(s) ==
    IF tagStarts(s) = {} THEN 0 ELSE CHOOSE p \in tagStarts(s) : \A m \in tagStarts(s) : p <= m

\* answerMatch[1].trim(): from the first character after the tag that is not whitespace
\* to the end of its line.
answerCapture(s) ==
    LET p == answerMatch(s)
        q == CHOOSE k \in (p + Len(AnswerTag))..Len(s) :
                 /\ s[k] \notin Whitespace
                 /\ \A m \in (p + Len(AnswerTag))..(k - 1) : s[m] \in Whitespace
        ends == {k \in q..Len(s) : s[k] \in LineTerminators}
        last == IF ends = {} THEN Len(s)
                ELSE (CHOOSE k \in ends : \A m \in ends : k <= m) - 1
    IN  trim(SubSeq(s, q, last))

\* Faulty variant: the words are looked for in any case.
hasNoMatchAnyCase(c) == includes(toLowerCase(c), toLowerCase(NoMatchText))

\* contentText.includes('NO MATCH')
hasNoMatch(c) == includes(c, NoMatchText)

\* Faulty variant: the engine without the length check of the fallback.
openAIAnswerAnyLength(content) ==
    LET c == contentText(content)
    IN  IF c = Absent \/ Len(c) = 0 \/ hasNoMatch(c) THEN Null
        ELSE IF answerMatch(c) # 0 THEN answerCapture(c)
        ELSE c

\* The answer of the OpenAI engine for a parsed response, Null for return null.
openAIAnswer(content) ==
    LET c == contentText(content)
    IN  IF c = Absent \/ Len(c) = 0 \/ hasNoMatch(c) THEN Null
        ELSE IF answerMatch(c) # 0 THEN answerCapture(c)
        ELSE IF Len(c) > MaxUntaggedLength THEN Null
        ELSE c

\* The answer of the Gemini engine for a parsed response.
geminiAnswer(content) ==
    LET t == IF content = Absent THEN Absent ELSE trim(content)
    IN  IF t = Absent \/ Len(t) = 0 \/ t = NoMatchText THEN Null ELSE t

-----------------------------------------------------------------------------
(* QuizEngine.processText: the requests, the retry and the try block *)

\* this.model: process.env.OPENAI_MODEL || 'gpt-5.2-chat-latest'
DefaultModel == "gpt-5.2-chat-latest"
FallbackModel == "gpt-5.2"
GeminiModel == "gemini-2.0-flash"
Models == {DefaultModel, FallbackModel}
Providers == {"openai", "gemini"}

\* The HTTP statuses of a response; response.ok is a status in 200..299.
Statuses == {200, 400, 404, 500}
ok(status) == 200 <= status /\ status <= 299

\* 'Unsupported parameter: 'max_tokens'. Use 'max_completion_tokens' instead.'
BodyUseCompletionTokens == <<"U","n","s","u","p","p","o","r","t","e","d"," ","p","a","r","a","m","e","t","e","r",":"," ","'","m","a","x","_","t","o","k","e","n","s","'","."," ","U","s","e"," ","'","m","a","x","_","c","o","m","p","l","e","t","i","o","n","_","t","o","k","e","n","s","'"," ","i","n","s","t","e","a","d",".">>
\* 'unsupported_parameter: max_completion_tokens'
BodyUnsupportedCompletionTokens == <<"u","n","s","u","p","p","o","r","t","e","d","_","p","a","r","a","m","e","t","e","r",":"," ","m","a","x","_","c","o","m","p","l","e","t","i","o","n","_","t","o","k","e","n","s">>
\* 'The model does not exist'
BodyNoSuchModel == <<"T","h","e"," ","m","o","d","e","l"," ","d","o","e","s"," ","n","o","t"," ","e","x","i","s","t">>
\* 'Rate limit reached'
BodyRateLimit == <<"R","a","t","e"," ","l","i","m","i","t"," ","r","e","a","c","h","e","d">>

ErrorBodies == {BodyUseCompletionTokens, BodyUnsupportedCompletionTokens,
                BodyNoSuchModel, BodyRateLimit}

\* A body of a successful response that response.json() cannot parse.
Unparseable == <<"<html>">>

SubModel == <<"m","o","d","e","l">>
SubNotFound == <<"n","o","t"," ","f","o","u","n","d">>
SubUnsupportedParameter == <<"u","n","s","u","p","p","o","r","t","e","d"," ","p","a","r","a","m","e","t","e","r">>
SubUnsupported_Parameter == <<"u","n","s","u","p","p","o","r","t","e","d","_","p","a","r","a","m","e","t","e","r">>
SubMaxTokens == <<"m","a","x","_","t","o","k","e","n","s">>
SubMaxCompletionTokens == <<"m","a","x","_","c","o","m","p","l","e","t","i","o","n","_","t","o","k","e","n","s">>
SubUseMaxCompletionTokens == <<"u","s","e"," ","'","m","a","x","_","c","o","m","p","l","e","t","i","o","n","_","t","o","k","e","n","s","'">>

NoRequest == [model |-> "none", tokenParam |-> "none"]

\* callOpenAIChat(systemPrompt, userPrompt, this.model, 'max_completion_tokens'), and
\* the one fetch of the Gemini engine
firstRequest(provider, model) ==
    IF provider = "openai" THEN [model |-> model, tokenParam |-> "max_completion_tokens"]
    ELSE [model |-> GeminiModel, tokenParam |-> "maxOutputTokens"]

looksLikeModelIssue(status, errorBodyLower) ==
    \/ status = 400
    \/ status = 404
    \/ includes(errorBodyLower, SubModel)
    \/ includes(errorBodyLower, SubNotFound)

tokenParamIssue(status, errorBodyLower) ==
    /\ status = 400
    /\ \/ includes(errorBodyLower, SubUnsupportedParameter)
       \/ includes(errorBodyLower, SubUnsupported_Parameter)
    /\ \/ includes(errorBodyLower, SubMaxTokens)
       \/ includes(errorBodyLower, SubMaxCompletionTokens)

retryTokenParam(errorBodyLower) ==
    IF includes(errorBodyLower, SubUseMaxCompletionTokens) THEN "max_completion_tokens"
    ELSE "max_tokens"

\* The request of the retry after a first response that is not ok; NoRequest for
\* `return null`.
retryRequest(status, errorBody, model) ==
    LET errorBodyLower == toLowerCase(errorBody)
    IN  IF tokenParamIssue(status, errorBodyLower)
        THEN [model |-> model, tokenParam |-> retryTokenParam(errorBodyLower)]
        ELSE IF looksLikeModelIssue(status, errorBodyLower) /\ model # FallbackModel
        THEN [model |-> FallbackModel, tokenParam |-> "max_completion_tokens"]
        ELSE NoRequest

\* The awaits of processText: the first fetch, response.text() of its error, the
\* fetch of the retry, response.text() of its error, response.json().
Awaits == {"fetch1", "text1", "fetch2", "text2", "json"}

\* Faulty variant: the try block ends before the response is read.
insideTryFetchOnly(pc) == pc \in {"fetch1", "fetch2"}

\* Every await of processText lies between `try {` and `} catch (error)`.
insideTry(pc) == pc \in Awaits

EngineIdle ==
    [pc |-> "idle", provider |-> "openai", key |-> FALSE, model |-> DefaultModel,
     text |-> <<>>, requests |-> <<>>, status |-> 0, body |-> <<>>,
     fault |-> "none", answer |-> Null, rejected |-> FALSE]

\* return null / return { question, confidence }
returned(e, answer) == [e EXCEPT !.pc = "done", !.answer = answer]

\* return null after a response that is not ok
returnedFailure(e) == [e EXCEPT !.pc = "done", !.fault = "status", !.answer = Null]

\* An await of processText throws: catch (error) { return null }.
thrown(e, fault) ==
    IF insideTry(e.pc)
    THEN [e EXCEPT !.pc = "done", !.fault = fault, !.answer = Null]
    ELSE [e EXCEPT !.pc = "done", !.fault = fault, !.rejected = TRUE]

\* Faulty variant: a failed retry is sent again.
retriedAgain(e) ==
    [e EXCEPT !.pc = "fetch2", !.requests = Append(@, e.requests[Len(e.requests)])]

\* if (!response.ok) { ...; return null } after the retry
retryFailed(e) == returnedFailure(e)

\* Faulty variant: the key is not looked at.
sendsRequestWithoutKey(text, key) == ~tooShort(text)

\* A request goes out: the text passes the length guard and the key is set.
sendsRequest(text, key) == ~tooShort(text) /\ key

sessionVars == <<accumulatedTranscript, lastProcessedLength, lastAnswerId,
                 clearDisplayTimer, showLive, apiKey, display, inflight, handled, ev,
                 timers, timerHandle, quiet>>

\* processText(text) of an engine of the given provider, key and model, up to its
\* first await.
processText(provider, key, model, text) ==
    /\ engine.pc \in {"idle", "done"}
    /\ LET e == [EngineIdle EXCEPT !.provider = provider, !.key = key,
                                   !.model = model, !.text = text]
       IN  engine' = IF ~sendsRequest(text, key) THEN returned(e, Null)
                     ELSE [e EXCEPT !.pc = "fetch1",
                                    !.requests = <<firstRequest(provider, model)>>]
    /\ UNCHANGED <<sessionVars, reply, round, scan, threshold, order, life>>

\* fetch rejects (network failure).
fetchRejects ==
    /\ engine.pc \in {"fetch1", "fetch2"}
    /\ engine' = thrown(engine, "network")
    /\ UNCHANGED <<sessionVars, reply, round, scan, threshold, order, life>>

\* fetch resolves with a response.
fetchResolves(status, body) ==
    /\ engine.pc \in {"fetch1", "fetch2"}
    /\ IF ok(status) THEN body \in Replies \cup {Unparseable} ELSE body \in ErrorBodies
    /\ engine' = [engine EXCEPT !.status = status, !.body = body,
                      !.pc = IF ok(status) THEN "json"
                             ELSE IF engine.pc = "fetch1" THEN "text1" ELSE "text2"]
    /\ UNCHANGED <<sessionVars, reply, round, scan, threshold, order, life>>

\* response.text() of a response that is not ok resolves.
textResolves ==
    /\ engine.pc \in {"text1", "text2"}
    /\ LET retry == retryRequest(engine.status, engine.body, engine.model)
       IN  engine' =
             IF engine.pc = "text2" THEN retryFailed(engine)
             ELSE IF engine.provider = "openai" /\ retry # NoRequest
             THEN [engine EXCEPT !.pc = "fetch2", !.requests = Append(@, retry)]
             ELSE returnedFailure(engine)
    /\ UNCHANGED <<sessionVars, reply, round, scan, threshold, order, life>>

\* response.text() rejects.
textRejects ==
    /\ engine.pc \in {"text1", "text2"}
    /\ engine' = thrown(engine, "errorBody")
    /\ UNCHANGED <<sessionVars, reply, round, scan, threshold, order, life>>

\* response.json() resolves and the reply is parsed.
jsonResolves ==
    /\ engine.pc = "json"
    /\ engine.body # Unparseable
    /\ engine' = returned(engine, IF engine.provider = "openai"
                                  THEN openAIAnswer(engine.body)
                                  ELSE geminiAnswer(engine.body))
    /\ UNCHANGED <<sessionVars, reply, round, scan, threshold, order, life>>

\* response.json() rejects.
jsonRejects ==
    /\ engine.pc = "json"
    /\ engine.body = Unparseable
    /\ engine' = thrown(engine, "unparseable")
    /\ UNCHANGED <<sessionVars, reply, round, scan, threshold, order, life>>

-----------------------------------------------------------------------------
(* The session *)

Init ==
    /\ accumulatedTranscript = <<>>
    /\ lastProcessedLength = 0
    /\ lastAnswerId = Null
    /\ clearDisplayTimer = FALSE
    /\ showLive \in BOOLEAN
    /\ apiKey \in BOOLEAN
    /\ display = InitialDisplay
    /\ inflight = <<>>
    /\ handled = 0
    /\ ev = NoEv
    /\ timers = {}
    /\ timerHandle = 0
    /\ quiet = 0
    /\ engine = EngineIdle
    /\ reply = Absent
    /\ round = NoRound
    /\ scan = NoScan
    /\ threshold = NoThreshold
    /\ order = NoOrder
    /\ life = NoLife

\* session.events.onTranscription -> handleTranscription(text, isFinal), up to its await.
\* throws: the layout call of the live display throws (and is caught).
handleTranscription(text, isFinal, throws) ==
    LET fullText    == FullText(accumulatedTranscript, text)
        sentenceEnd == currentSentenceEnd(fullText)
        process     == shouldProcess(isFinal, sentenceEnd, lastProcessedLength)
        committed   == commitLength(lastProcessedLength, text, fullText, isFinal)
        sent        == dispatchedText(fullText, sentenceEnd, isFinal)
        request     == process /\ sendsRequest(sent, apiKey)
        shows       == showLive /\ ~throws
    IN  /\ handled < MaxSegments
        /\ handled' = handled + 1
        /\ throws => showLive
        /\ clearDisplayTimer' = TRUE
        /\ display' = IF shows THEN LiveLayout(fullText, lastAnswerId) ELSE display
        /\ accumulatedTranscript' =
               commitTranscript(accumulatedTranscript, text, fullText, isFinal)
        /\ lastProcessedLength' =
               IF process THEN checkpoint(isFinal, fullText, sentenceEnd) ELSE committed
        /\ inflight' = IF request THEN Append(inflight, sent) ELSE inflight
        /\ ev' = Observed([NoEv EXCEPT !.op = "handle", !.text = text,
                     !.isFinal = isFinal, !.fullText = fullText, !.called = process,
                     !.sent = IF process THEN sent ELSE <<>>,
                     !.fetched = request,
                     !.shown = IF shows THEN display'.kind ELSE "none"])
        /\ UNCHANGED <<lastAnswerId, showLive, apiKey>>

\* The rest of handleTranscription once processText(fullText) has returned `result`
\* for the i-th awaited call. throws: showDoubleTextWall throws (and is caught).
processTextReturns(i, result, throws) ==
    LET fullText == inflight[i]
        rest == SubSeq(inflight, 1, i - 1) \o SubSeq(inflight, i + 1, Len(inflight))
    IN  /\ throws => result # Null
        /\ inflight' = rest
        /\ IF result # Null
           THEN /\ display' = IF throws THEN display
                              ELSE DoubleTextWall(questionText(fullText), AnswerLine(result))
                /\ lastAnswerId' = result
           ELSE UNCHANGED <<display, lastAnswerId>>
        /\ ev' = Observed([NoEv EXCEPT !.op = "return", !.result = result,
                     !.shown = IF result # Null /\ ~throws THEN "double" ELSE "none"])
        /\ UNCHANGED <<accumulatedTranscript, lastProcessedLength, clearDisplayTimer,
                       showLive, apiKey, handled>>

\* Faulty variant: the timer callback leaves the transcript alone.
keptTranscript(acc) == acc

\* accumulatedTranscript = "" in the timer callback
clearedTranscript(acc) == <<>>

\* The callback of setTimeout in resetClearTimer.
clearTimerFires ==
    /\ clearDisplayTimer
    /\ clearDisplayTimer' = FALSE
    /\ display' = TextWall(Blank)
    /\ lastAnswerId' = Null
    /\ lastProcessedLength' = 0
    /\ accumulatedTranscript' = clearedTranscript(accumulatedTranscript)
    /\ ev' = Observed([NoEv EXCEPT !.op = "timer", !.shown = "text"])
    /\ UNCHANGED <<showLive, apiKey, inflight, handled>>

\* The events of a session. The layout calls are taken to return here: a throw
\* inside the handler is caught and only leaves the display as it was, and a throw
\* inside the timer callback is uncaught and ends the process.
Next ==
    \/ \E text \in Segments, isFinal \in BOOLEAN :
           handleTranscription(text, isFinal, FALSE) /\ UNCHANGED <<timeVars, viewVars>>
    \/ \E i \in 1..Len(inflight), result \in Entities \cup {Null} :
           processTextReturns(i, result, FALSE) /\ UNCHANGED <<timeVars, viewVars>>
    \/ clearTimerFires /\ UNCHANGED <<timeVars, viewVars>>

Spec == Init /\ [][Next]_vars

-----------------------------------------------------------------------------
(* The silence timer with time: resetClearTimer and the timeouts it schedules *)

\* The times by which the clock advances between two events, in milliseconds.
Elapses == {1000, 2000, 3000}

\* The segment texts of the timed view.
TimedSegments == {CapitalOf}

\* Faulty variant: the pending timeout is not cleared.
timeoutsKept(scheduled, handle) == scheduled

\* if (clearDisplayTimer) clearTimeout(clearDisplayTimer)
timeoutsCleared(scheduled, handle) == {t \in scheduled : t.id # handle}

\* clearDisplayTimer = setTimeout(callback, 3000): the timeouts scheduled afterwards
timeoutSet(scheduled, id) == scheduled \cup {[id |-> id, remaining |-> ClearDelay]}

\* resetClearTimer(), as the first statement of handleTranscription
resetClearTimer ==
    /\ timers' = timeoutSet(timeoutsCleared(timers, timerHandle), handled + 1)
    /\ timerHandle' = handled + 1
    /\ quiet' = 0

\* d milliseconds pass without an event of the session.
timePasses(d) ==
    /\ timers' = {[t EXCEPT !.remaining = IF t.remaining > d THEN t.remaining - d ELSE 0]
                      : t \in timers}
    /\ quiet' = IF quiet + d < ClearDelay THEN quiet + d ELSE ClearDelay
    /\ UNCHANGED <<accumulatedTranscript, lastProcessedLength, lastAnswerId,
                   clearDisplayTimer, showLive, apiKey, display, inflight, handled, ev,
                   timerHandle, viewVars>>

\* A timeout that is due runs its callback.
timeoutRuns ==
    \E t \in timers :
        /\ t.remaining = 0
        /\ timers' = timers \ {t}
        /\ clearTimerFires
        /\ UNCHANGED <<timerHandle, quiet, viewVars>>

TimedNext ==
    \/ \E text \in TimedSegments, isFinal \in BOOLEAN :
           handleTranscription(text, isFinal, FALSE) /\ resetClearTimer
                                                     /\ UNCHANGED viewVars
    \/ \E i \in 1..Len(inflight), result \in {Null, Paris} :
           processTextReturns(i, result, FALSE) /\ UNCHANGED <<timeVars, viewVars>>
    \/ timeoutRuns
    \/ \E d \in Elapses : timePasses(d)

TimedSpec == Init /\ [][TimedNext]_vars

-----------------------------------------------------------------------------
(* One invocation of processText on its own *)

EngineTexts == {Blank, NoYes, CapitalOf}

EngineNext ==
    \/ \E provider \in Providers, key \in BOOLEAN, model \in Models, text \in EngineTexts :
           processText(provider, key, model, text)
    \/ fetchRejects
    \/ \E status \in Statuses, body \in Replies \cup {Unparseable} \cup ErrorBodies :
           fetchResolves(status, body)
    \/ textResolves
    \/ textRejects
    \/ jsonResolves
    \/ jsonRejects

SpecEngine == Init /\ [][EngineNext]_vars

-----------------------------------------------------------------------------
(* The session with the replies of the model parsed by the OpenAI engine *)

ReplySegments == {CapitalOf, NoYes}
SessionReplies == {ReplyReset, ReplyChatter, ReplyNoMatch, ReplyAnswer}

RepliesNext ==
    \/ \E text \in ReplySegments, isFinal \in BOOLEAN :
           handleTranscription(text, isFinal, FALSE) /\ UNCHANGED <<timeVars, viewVars>>
    \/ \E i \in 1..Len(inflight), content \in SessionReplies :
           /\ processTextReturns(i, openAIAnswer(content), FALSE)
           /\ reply' = content
           /\ UNCHANGED <<timeVars, engine, round, scan, threshold, order, life>>
    \/ clearTimerFires /\ UNCHANGED <<timeVars, viewVars>>

SpecReplies == Init /\ [][RepliesNext]_vars

-----------------------------------------------------------------------------
(* The session with the dispatches of each round recorded *)

\* The record of the round after a handler that left the observation e.
roundAfter(r, e) ==
    IF ~e.called THEN [r EXCEPT !.same = FALSE, !.again = FALSE]
    ELSE IF e.isFinal /\ hasText(e.text) /\ cueDetected(e.fullText) THEN NoRound
    ELSE [texts |-> r.texts \cup {e.sent}, last |-> <<e.sent>>,
          same |-> r.last = <<e.sent>>, again |-> e.sent \in r.texts]

RoundsNext ==
    \/ \E text \in Segments, isFinal \in BOOLEAN :
           /\ handleTranscription(text, isFinal, FALSE)
           /\ round' = roundAfter(round, ev')
           /\ UNCHANGED <<timeVars, engineVars, scan, threshold, order, life>>
    \/ \E i \in 1..Len(inflight) :
           processTextReturns(i, Null, FALSE) /\ UNCHANGED <<timeVars, viewVars>>
    \/ clearTimerFires /\ round' = NoRound /\ UNCHANGED <<timeVars, engineVars, scan, threshold, order, life>>

SpecRounds == Init /\ [][RoundsNext]_vars

-----------------------------------------------------------------------------
(* The session with display calls that throw and the emulate_input tool *)

DisplaySegments == {CapitalOf}
ToolTexts == {CapitalOf}

\* handleToolCall for emulate_input with an active session, from the return of its
\* own processText(text) on: result is what that call returned.
handleToolCall(text, result) ==
    /\ Len(text) > 0
    /\ result # Null => sendsRequest(text, apiKey)
    /\ display' = IF result # Null THEN TextWall(AnswerLine(result))
                  ELSE TextWall(NoQuizMatch(text))
    /\ ev' = Observed([NoEv EXCEPT !.op = "tool", !.text = text, !.result = result,
                                   !.shown = "text"])
    /\ UNCHANGED <<accumulatedTranscript, lastProcessedLength, lastAnswerId,
                   clearDisplayTimer, showLive, apiKey, inflight, handled>>

DisplayNext ==
    \/ \E text \in DisplaySegments, isFinal \in BOOLEAN, throws \in BOOLEAN :
           handleTranscription(text, isFinal, throws) /\ UNCHANGED <<timeVars, viewVars>>
    \/ \E i \in 1..Len(inflight), result \in Entities \cup {Null}, throws \in BOOLEAN :
           processTextReturns(i, result, throws) /\ UNCHANGED <<timeVars, viewVars>>
    \/ clearTimerFires /\ UNCHANGED <<timeVars, viewVars>>
    \/ \E text \in ToolTexts, result \in Entities \cup {Null} :
           handleToolCall(text, result) /\ UNCHANGED <<timeVars, viewVars>>

SpecDisplay == Init /\ [][DisplayNext]_vars

-----------------------------------------------------------------------------
(* The sentence-end detection on its own *)

Alphabet == {"a", ".", "?", "!", " "}

\* The exec loop of handleTranscription and currentSentenceEnd, for the text scanned
\* before with the character c after it.
detectSentenceEnd(c) ==
    /\ Len(scan.text) < MaxTextLen
    /\ scan' = [text |-> Append(scan.text, c),
                end |-> currentSentenceEnd(Append(scan.text, c))]
    /\ UNCHANGED <<sessionVars, engine, reply, round, threshold, order, life>>

ScanNext == \E c \in Alphabet : detectSentenceEnd(c)

SpecScan == Init /\ [][ScanNext]_vars

-----------------------------------------------------------------------------
(* The length-threshold handler of index.ts *)

\* text.length - lastProcessedLength >= 75
GrowthStep == 75

\* The lengths of the texts of the segments.
Lengths == {0, 1, 74, 75, 99, 100, 174, 175}

\* shouldProcess = isFinal || (text.length >= 1 && (text.length - lastProcessedLength >= 75))
shouldProcessLength(isFinal, length, processed) ==
    isFinal \/ (length >= 1 /\ length - processed >= GrowthStep)

\* handleTranscription of index.ts for a text of the given length, up to its await.
handleLength(length, isFinal) ==
    LET process == shouldProcessLength(isFinal, length, threshold.lastProcessedLength)
    IN  /\ threshold.count < MaxSegments
        /\ threshold' =
              [lastProcessedLength |-> IF process THEN length
                                       ELSE threshold.lastProcessedLength,
               op |-> "handle", length |-> length, isFinal |-> isFinal,
               called |-> process, preLpl |-> threshold.lastProcessedLength,
               first |-> threshold.fresh, fresh |-> threshold.fresh /\ ~process,
               count |-> threshold.count + 1]
        /\ UNCHANGED <<sessionVars, engine, reply, round, scan, order, life>>

\* The callback of setTimeout in resetClearTimer of index.ts.
lengthTimerFires ==
    /\ threshold.op = "handle"
    /\ threshold' = [threshold EXCEPT !.lastProcessedLength = 0, !.op = "timer",
                                      !.called = FALSE, !.fresh = TRUE]
    /\ UNCHANGED <<sessionVars, engine, reply, round, scan, order, life>>

ThresholdNext ==
    \/ \E length \in Lengths, isFinal \in BOOLEAN : handleLength(length, isFinal)
    \/ lengthTimerFires

SpecThreshold == Init /\ [][ThresholdNext]_vars

-----------------------------------------------------------------------------
(* The session with the order of its requests and answers recorded *)

OrderSegments == {CapitalOf, NoYes}

orderAfterHandler(o, e) ==
    IF e.fetched
    THEN [o EXCEPT !.calls = Append(@, o.count + 1), !.count = @ + 1, !.stale = FALSE]
    ELSE [o EXCEPT !.stale = FALSE]

orderAfterReturn(o, i, result) ==
    LET rest == SubSeq(o.calls, 1, i - 1) \o SubSeq(o.calls, i + 1, Len(o.calls))
    IN  IF result # Null
        THEN [o EXCEPT !.calls = rest, !.shownFor = o.calls[i],
                       !.stale = o.calls[i] < o.shownFor]
        ELSE [o EXCEPT !.calls = rest, !.stale = FALSE]

OrderNext ==
    \/ \E text \in OrderSegments, isFinal \in BOOLEAN :
           /\ handleTranscription(text, isFinal, FALSE)
           /\ order' = orderAfterHandler(order, ev')
           /\ UNCHANGED <<timeVars, engineVars, round, scan, threshold, life>>
    \/ \E i \in 1..Len(inflight), result \in Entities \cup {Null} :
           /\ processTextReturns(i, result, FALSE)
           /\ order' = orderAfterReturn(order, i, result)
           /\ UNCHANGED <<timeVars, engineVars, round, scan, threshold, life>>
    \/ /\ clearTimerFires
       /\ order' = [order EXCEPT !.shownFor = 0, !.stale = FALSE]
       /\ UNCHANGED <<timeVars, engineVars, round, scan, threshold, life>>

SpecOrder == Init /\ [][OrderNext]_vars

-----------------------------------------------------------------------------
(* The session from onSession to its end *)

LifeSegments == {CapitalOf, NoYes}
LifeResults == {Null, Paris}

\* Faulty variant: the cleanup handler leaves the timeout pending.
timerKeptAtCleanup(pending) == pending

\* if (clearDisplayTimer) clearTimeout(clearDisplayTimer), in the cleanup handler
timerClearedAtCleanup(pending) == FALSE

\* onSession for a device with or without a display: the entry in userSessionsMap
\* is made first, the handlers are set up only when there is a display.
onSession(hasDisplay) ==
    /\ life.phase = "none"
    /\ life' = [phase |-> "active", hasDisplay |-> hasDisplay, inMap |-> TRUE,
                cleanup |-> hasDisplay]
    /\ UNCHANGED <<sessionVars, engine, reply, round, scan, threshold, order>>

\* The session ends: the cleanup handler runs if onSession registered one.
sessionEnds ==
    /\ life.phase = "active"
    /\ IF life.cleanup
       THEN /\ life' = [life EXCEPT !.phase = "ended", !.inMap = FALSE]
            /\ clearDisplayTimer' = timerClearedAtCleanup(clearDisplayTimer)
            /\ ev' = Observed([NoEv EXCEPT !.op = "cleanup"])
       ELSE /\ life' = [life EXCEPT !.phase = "ended"]
            /\ UNCHANGED <<clearDisplayTimer, ev>>
    /\ UNCHANGED <<accumulatedTranscript, lastProcessedLength, lastAnswerId, showLive,
                   apiKey, display, inflight, handled, timeVars, engine, reply, round,
                   scan, threshold, order>>

LifeNext ==
    \/ \E hasDisplay \in BOOLEAN : onSession(hasDisplay)
    \/ \E text \in LifeSegments, isFinal \in BOOLEAN :
           /\ life.phase = "active" /\ life.hasDisplay
           /\ handleTranscription(text, isFinal, FALSE)
           /\ UNCHANGED <<timeVars, viewVars>>
    \/ \E i \in 1..Len(inflight), result \in LifeResults :
           processTextReturns(i, result, FALSE) /\ UNCHANGED <<timeVars, viewVars>>
    \/ clearTimerFires /\ UNCHANGED <<timeVars, viewVars>>
    \/ sessionEnds

SpecLife == Init /\ [][LifeNext]_vars

-----------------------------------------------------------------------------
(* The per-utterance handler: every segment carries the text of its utterance so
   far and nothing is accumulated between segments *)

\* A one-sentence utterance of three characters.
Hi == <<"H","i",".">>

\* The segment texts of the per-utterance view.
UtteranceSegments == {CapitalOf, NoYes, ForTen, Hi}

\* "Quibble Ready."
QuibbleReady == <<"Q","u","i","b","b","l","e"," ","R","e","a","d","y",".">>

\* Faulty variant: a shorter text leaves the checkpoint where it was.
utteranceStartKept(text, processed) == processed

\* if (text.length < lastProcessedLength) lastProcessedLength = 0
utteranceStart(text, processed) == IF Len(text) < processed THEN 0 ELSE processed

\* handleTranscription(text, isFinal) of the per-utterance handler, up to its await.
\* throws: the layout call of the live display throws (and is caught).
handleUtterance(text, isFinal, throws) ==
    LET started     == utteranceStart(text, lastProcessedLength)
        sentenceEnd == currentSentenceEnd(text)
        process     == shouldProcess(isFinal, sentenceEnd, started)
        request     == process /\ sendsRequest(text, apiKey)
        shows       == showLive /\ ~throws
    IN  /\ handled < MaxSegments
        /\ handled' = handled + 1
        /\ throws => showLive
        /\ clearDisplayTimer' = TRUE
        /\ display' = IF shows THEN LiveLayout(text, lastAnswerId) ELSE display
        /\ lastProcessedLength' =
               IF process THEN checkpoint(isFinal, text, sentenceEnd) ELSE started
        /\ inflight' = IF request THEN Append(inflight, text) ELSE inflight
        /\ ev' = Observed([NoEv EXCEPT !.op = "handle", !.text = text,
                     !.isFinal = isFinal, !.fullText = text, !.called = process,
                     !.sent = IF process THEN text ELSE <<>>,
                     !.fetched = request,
                     !.shown = IF shows THEN display'.kind ELSE "none"])
        /\ UNCHANGED <<accumulatedTranscript, lastAnswerId, showLive, apiKey>>

\* The rest of the per-utterance handler once processText(text) has returned
\* `result` for the i-th awaited call.
utteranceReturns(i, result) == processTextReturns(i, result, FALSE)

\* The callback of setTimeout in resetClearTimer of the per-utterance handler.
utteranceTimerFires ==
    /\ clearDisplayTimer
    /\ clearDisplayTimer' = FALSE
    /\ display' = TextWall(QuibbleReady)
    /\ lastAnswerId' = Null
    /\ lastProcessedLength' = 0
    /\ ev' = Observed([NoEv EXCEPT !.op = "timer", !.shown = "text"])
    /\ UNCHANGED <<accumulatedTranscript, showLive, apiKey, inflight, handled>>

UtteranceNext ==
    \/ \E text \in UtteranceSegments, isFinal \in BOOLEAN :
           handleUtterance(text, isFinal, FALSE) /\ UNCHANGED <<timeVars, viewVars>>
    \/ \E i \in 1..Len(inflight), result \in Entities \cup {Null} :
           utteranceReturns(i, result) /\ UNCHANGED <<timeVars, viewVars>>
    \/ utteranceTimerFires /\ UNCHANGED <<timeVars, viewVars>>

SpecUtterance == Init /\ [][UtteranceNext]_vars

TypeOK ==
    /\ lastProcessedLength \in Nat
    /\ lastAnswerId \in Entities \cup {Null}
    /\ Len(inflight) <= MaxSegments
    /\ handled \in 0..MaxSegments

-----------------------------------------------------------------------------
(* Vocabulary of the properties *)

Punctuation == {".", "?", "!"}

\* The text has a character that is not whitespace.
NonBlank(t) == \E i \in 1..Len(t) : t[i] \notin Whitespace

\* a and b joined by one space, or b alone when a is empty.
Joined(a, b) == IF a = <<>> THEN b ELSE a \o <<" ">> \o b

\* The full text of a segment: the buffer joined with the segment's text; a blank
\* segment adds nothing.
FullTextOf(acc, text) == IF NonBlank(text) THEN Joined(acc, text) ELSE acc

\* The positions (1-based) of the sentence ends of t: '.', '?' or '!' followed by
\* whitespace or by the end of t.
SentenceEnds(t) ==
    {i \in 1..Len(t) : t[i] \in Punctuation /\ (i = Len(t) \/ t[i + 1] \in Whitespace)}

\* The last sentence boundary of t: the length of its longest sentence-terminated
\* prefix, 0 when there is none.
SentenceBoundary(t) ==
    IF SentenceEnds(t) = {} THEN 0
    ELSE CHOOSE i \in SentenceEnds(t) : \A j \in SentenceEnds(t) : j <= i

\* t contains the end-of-clue phrase, compared case-insensitively.
HasCue(t) ==
    \E i \in 1..(Len(t) - Len(CuePhrase) + 1) :
        \A k \in 1..Len(CuePhrase) : toLowerChar(t[i + k - 1]) = CuePhrase[k]

\* The last step handled a segment.
Handled == ev.op = "handle"

\* The step before the last handled a non-final segment with text, in a session
\* still as onSession left it, and the last step handled a final segment with text.
FreshPartialThenFinal ==
    /\ Handled /\ ev.isFinal /\ NonBlank(ev.text)
    /\ ev.before.op = "handle" /\ ev.before.fresh
    /\ ~ev.before.isFinal /\ NonBlank(ev.before.text)

-----------------------------------------------------------------------------
(* C11: every segment restarts the countdown: at most one timeout is pending, and
   the timer callback only runs when a full quiet period has passed since the most
   recent segment. *)
C11_OneCountdown ==
    /\ Cardinality(timers) <= 1
    /\ ev.op = "timer" => ev.preQuiet >= ClearDelay
    /\ clearDisplayTimer <=> timers # {}

C11_Witness ==
    /\ Handled /\ handled >= 2
    /\ 0 < ev.preQuiet /\ ev.preQuiet < ClearDelay
    /\ timers = {[id |-> timerHandle, remaining |-> ClearDelay]}

(* C12..C19 speak of the outcome of one processText invocation. *)

\* The invocation returned from the parsing of a response that was ok.
Parsed == engine.pc = "done" /\ engine.fault = "none" /\ ok(engine.status)

\* The text t holds the text sub.
Contains(t, sub) ==
    \E i \in 1..Len(t) : \A k \in 1..Len(sub) : i + k - 1 <= Len(t) /\ t[i+k-1] = sub[k]

\* A line of t begins with the text sub, compared without regard to case.
LineBegins(t, sub) ==
    \E i \in 1..Len(t) :
        /\ i = 1 \/ t[i-1] = "\n"
        /\ \A k \in 1..Len(sub) :
               i + k - 1 <= Len(t) /\ toLowerChar(t[i+k-1]) = toLowerChar(sub[k])

\* A reply of more than 50 characters in none of the forms NO MATCH, ANSWER: X.
Verbose(t) ==
    /\ t \notin {Absent, Unparseable}
    /\ Len(t) > 50
    /\ ~Contains(t, NoMatchText)
    /\ ~LineBegins(t, AnswerTag)

NoMatchRecords == <<"N","O"," ","M","A","T","C","H"," ","R","e","c","o","r","d","s">>

(* C12: when the reply for a dispatched text is RESET, afterwards lastAnswerId is
   null, accumulatedTranscript is empty, lastProcessedLength is 0 and no answer is
   displayed. *)
C12_ResetGoesIdle ==
    (ev.op = "return" /\ reply = ReplyReset) =>
        /\ lastAnswerId = Null
        /\ accumulatedTranscript = <<>>
        /\ lastProcessedLength = 0
        /\ display.kind # "double"

(* C13: a CHATTER reply and a NO MATCH reply leave accumulatedTranscript,
   lastProcessedLength, lastAnswerId and the display as they were. *)
C13_ChatterLeavesSession ==
    (ev.op = "return" /\ reply \in {ReplyChatter, ReplyNoMatch}) =>
        /\ accumulatedTranscript = ev.preAcc
        /\ lastProcessedLength = ev.preLpl
        /\ lastAnswerId = ev.preAns
        /\ ev.shown = "none"

(* C14: the replies RESET and CHATTER are never returned as an Answer whose entity
   is the literal text "RESET" or "CHATTER". *)
C14_ResetChatterNotAnswers ==
    (Parsed /\ engine.body \in {ReplyReset, ReplyChatter})
        => engine.answer \notin {ReplyReset, ReplyChatter}

(* C15: a reply is NoMatch exactly when a line of it begins with NO MATCH compared
   without regard to case: "no match" is NoMatch, and "ANSWER: X" with X holding
   the words NO MATCH is an Answer with entity X. *)
C15_NoMatchAtLineStart ==
    Parsed =>
        /\ LineBegins(engine.body, NoMatchText) => engine.answer = Null
        /\ engine.body = ReplyAnswerNoMatch => engine.answer = NoMatchRecords

(* C15, amended: the OpenAI engine returns null for every reply that holds the
   upper-case words NO MATCH anywhere, the tagged reply "ANSWER: NO MATCH Records"
   included; the Gemini engine returns null only for a reply that is exactly
   NO MATCH after trimming; "no match" in lower case is returned as an Answer. *)
C15_NoMatchBySubstring ==
    Parsed =>
        /\ (engine.provider = "openai" /\ Contains(engine.body, NoMatchText))
               => engine.answer = Null
        /\ engine.provider = "gemini"
               => (engine.answer = Null <=> engine.body \in {ReplyNoMatch, Absent})
        /\ engine.body = ReplyNoMatchLower => engine.answer = ReplyNoMatchLower

C15_Witness ==
    /\ Parsed
    /\ engine.provider = "openai"
    /\ engine.body = ReplyAnswerNoMatch
    /\ engine.answer = Null

(* C16: a reply in none of the recognized forms and longer than 50 characters
   never yields an Answer. *)
C16_VerboseNeverAnswer == (Parsed /\ Verbose(engine.body)) => engine.answer = Null

(* C16, amended: the OpenAI engine returns null for a reply in none of the forms
   that is longer than 50 characters; the Gemini engine returns such a reply as
   the Answer. *)
C16_VerboseOpenAINeverAnswer ==
    (Parsed /\ Verbose(engine.body)) =>
        IF engine.provider = "openai" THEN engine.answer = Null
        ELSE engine.answer = engine.body

C16_Witness ==
    /\ Parsed
    /\ engine.provider = "openai"
    /\ engine.body = ReplyVerbose
    /\ engine.answer = Null

(* C17: one invocation makes at most two requests, and when the response to the
   retry is not ok either the invocation returns null without a third request. *)
C17_AtMostTwoRequests ==
    /\ Len(engine.requests) <= 2
    /\ (engine.pc = "done" /\ Len(engine.requests) = 2 /\ ~ok(engine.status))
           => engine.answer = Null

C17_Witness ==
    /\ engine.pc = "done"
    /\ Len(engine.requests) = 2
    /\ engine.status = 500
    /\ engine.fault = "status"

(* C18: with an empty API key processText returns null at once and no request is
   made, whatever the text. *)
C18_NoKeyNoRequest ==
    (engine.pc # "idle" /\ ~engine.key) =>
        /\ engine.pc = "done"
        /\ engine.requests = <<>>
        /\ engine.answer = Null

C18_Witness ==
    /\ engine.pc = "done"
    /\ ~engine.key
    /\ engine.text = CapitalOf

(* C19: processText never rejects: a network failure, a status that is not ok, a
   failure reading the error body and an unparseable body each end in a returned
   null, the value a NO MATCH reply gives. *)
C19_NeverRejects ==
    /\ ~engine.rejected
    /\ (engine.pc = "done" /\ engine.fault # "none") => engine.answer = Null
    /\ (Parsed /\ engine.body = ReplyNoMatch) => engine.answer = Null

C19_Witness ==
    /\ engine.pc = "done"
    /\ engine.fault = "errorBody"
    /\ Len(engine.requests) = 2
    /\ engine.answer = Null

(* C20: between two resets processText is never invoked twice with the same text,
   also when a final segment repeats or adds nothing to text already dispatched. *)
C20_NoRepeatedDispatch == Handled => ~round.again

(* C20, amended: a non-final segment never invokes processText with the text of
   the dispatch before it in the same round; a final segment is always
   dispatched, so a final segment that repeats or adds nothing invokes
   processText again with the text already dispatched. *)
C20_OnlyFinalRepeats ==
    /\ (Handled /\ round.same) => ev.isFinal
    /\ (Handled /\ ev.isFinal) => ev.called

C20_Witness ==
    /\ Handled
    /\ round.same
    /\ ev.isFinal
    /\ ev.fetched
    /\ ev.before.op = "handle"
    /\ ev.before.called

\* The answer line the display shows, the empty text when it shows none.
AnswerPrefix == <<"A","n","s","w","e","r",":"," ">>

ShownAnswer(d) ==
    IF d.kind = "double" THEN d.bottom
    ELSE IF Len(d.top) >= Len(AnswerPrefix) /\ SubSeq(d.top, 1, Len(AnswerPrefix)) = AnswerPrefix
    THEN d.top
    ELSE <<>>

(* C21: in every reachable state lastAnswerId is null exactly when no answer is on
   the display, and otherwise the answer line shown is "Answer: " followed by
   lastAnswerId, also after a display call that throws and after emulate_input. *)
C21_AnswerShownIffStored ==
    /\ lastAnswerId = Null <=> ShownAnswer(display) = <<>>
    /\ lastAnswerId # Null => ShownAnswer(display) = AnswerPrefix \o lastAnswerId

(* C21, amended: right after a display call of the handler, of a returning call or
   of the silence timer that did not throw, lastAnswerId is null exactly when no
   answer is shown, and otherwise the line shown is "Answer: " followed by
   lastAnswerId; and whenever a double text wall is shown lastAnswerId is not
   null. *)
C21_AnswerShownAfterDisplayCall ==
    /\ (ev.op \in {"handle", "return", "timer"} /\ ev.shown # "none") =>
           /\ lastAnswerId = Null <=> ShownAnswer(display) = <<>>
           /\ lastAnswerId # Null => ShownAnswer(display) = AnswerPrefix \o lastAnswerId
    /\ display.kind = "double" => lastAnswerId # Null

C21_Witness ==
    /\ Handled
    /\ ev.shown = "double"
    /\ ev.before.op = "tool"
    /\ lastAnswerId = Paris
    /\ ShownAnswer(display) = AnswerPrefix \o Paris

\* The text a is a prefix of the text b.
IsPrefix(a, b) == Len(a) <= Len(b) /\ SubSeq(b, 1, Len(a)) = a

\* The last step was the handler of a final segment that reset on the cue.
CueReset == Handled /\ ev.isFinal /\ NonBlank(ev.text) /\ HasCue(ev.fullText)

(* C22: between two resets (the silence timer firing, the cue phrase)
   accumulatedTranscript only grows: after every other step its value before the
   step is a prefix of its value after it. *)
C22_TranscriptOnlyGrows ==
    (ev.op \in {"handle", "return"} /\ ~CueReset)
        => IsPrefix(ev.preAcc, accumulatedTranscript)

C22_Witness ==
    /\ Handled
    /\ ~CueReset
    /\ ev.preAcc # <<>>
    /\ Len(accumulatedTranscript) > Len(ev.preAcc)
    /\ inflight # <<>>

(* C23: the detected sentence boundary of a text is the index just after the last
   of its characters '.', '?', '!' that is followed by whitespace or by the end
   of the text, and 0 when it has no such character; punctuation followed
   directly by another character is not a boundary. *)
C23_BoundaryAfterLastTerminator ==
    LET t == scan.text
        terminator(i) == t[i] \in Punctuation /\ (i = Len(t) \/ t[i+1] \in {" ", "\n", "\t"})
    IN  IF \E i \in 1..Len(t) : terminator(i)
        THEN /\ scan.end \in 1..Len(t)
             /\ terminator(scan.end)
             /\ \A j \in (scan.end + 1)..Len(t) : ~terminator(j)
        ELSE scan.end = 0

C23_Witness ==
    /\ scan.text = <<"?", " ", ".", "a">>
    /\ scan.end = 1

(* C24: after the handler of a final segment that resets on the cue phrase,
   lastProcessedLength is 0. *)
C24_CueResetsCheckpoint == CueReset => lastProcessedLength = 0

(* C25: when the first OpenAI request fails with status 400 and an
   unsupported-parameter error about max_tokens or max_completion_tokens, the
   retry names a token parameter other than that of the first request, with the
   same model. *)
C25_RetryAlternatesTokenParam ==
    (/\ engine.pc = "fetch2"
     /\ engine.status = 400
     /\ engine.body \in {BodyUseCompletionTokens, BodyUnsupportedCompletionTokens})
        => /\ engine.requests[2].tokenParam # engine.requests[1].tokenParam
           /\ engine.requests[2].model = engine.requests[1].model

(* C26: in the length-threshold handler a non-final segment is processed only if
   its text has at least 100 characters for the first dispatch and afterwards only
   if it has grown by at least 75 characters since the last processed length; a
   final segment is always processed. *)
C26_FirstDispatchAtHundred ==
    threshold.op = "handle" =>
        /\ threshold.isFinal => threshold.called
        /\ (threshold.called /\ ~threshold.isFinal) =>
               IF threshold.first THEN threshold.length >= 100
               ELSE threshold.length - threshold.preLpl >= 75

(* C27: after the silence timer has fired lastAnswerId stays null and no answer is
   shown until a new segment arrives, also when a call that was in flight when
   the timer fired returns. *)
C27_NoAnswerAfterTimer ==
    (ev.op = "return" /\ ev.before.op = "timer") =>
        /\ lastAnswerId = Null
        /\ ShownAnswer(display) = <<>>

(* C27, amended: when the silence timer fires lastAnswerId becomes null and the
   display blank, and they stay so while no segment arrives and no call returns an
   answer; a call that was in flight when the timer fired and returns an answer
   shows that answer and stores it in lastAnswerId. *)
C27_LateAnswerShown ==
    /\ ev.op = "timer" => (lastAnswerId = Null /\ display = TextWall(Blank))
    /\ (ev.op = "return" /\ ev.before.op = "timer") =>
           IF ev.result = Null
           THEN lastAnswerId = Null /\ display = TextWall(Blank)
           ELSE /\ lastAnswerId = ev.result
                /\ ShownAnswer(display) = AnswerPrefix \o ev.result

C27_Witness ==
    /\ ev.op = "return"
    /\ ev.before.op = "timer"
    /\ ev.preAns = Null
    /\ lastAnswerId = Paris
    /\ display.kind = "double"

(* C28: when two calls of a session overlap, the answer of the request sent
   earlier, arriving later, never replaces the answer of the request sent after
   it. *)
C28_LaterRequestWins == ~order.stale

(* C29: every session onSession registered in userSessionsMap is removed when it
   ends, also the session of a device without a display. *)
C29_EndedSessionLeavesMap == life.phase = "ended" => ~life.inMap

(* C30: after the cleanup handler has run nothing further happens for the
   session: the silence timer does not fire and no step updates the display or
   changes lastAnswerId, also when a call was in flight at cleanup. *)
C30_NothingAfterCleanup ==
    (life.phase = "ended" /\ life.cleanup) =>
        /\ ev.op # "timer"
        /\ ev.op = "return" => (ev.shown = "none" /\ lastAnswerId = ev.preAns)

(* C30, amended: after the cleanup handler has run no segment is handled and the
   silence timer does not fire; a call that was in flight at cleanup still runs to
   its end, and when it returns an answer the handler shows it and stores it in
   lastAnswerId. *)
C30_OnlyReturnsAfterCleanup ==
    (life.phase = "ended" /\ life.cleanup) =>
        /\ ev.op \in {"cleanup", "return"}
        /\ ~clearDisplayTimer
        /\ (ev.op = "return" /\ ev.result # Null) =>
               /\ lastAnswerId = ev.result
               /\ ShownAnswer(display) = AnswerPrefix \o ev.result
        /\ (ev.op = "return" /\ ev.result = Null) => lastAnswerId = ev.preAns

C30_Witness ==
    /\ life.phase = "ended"
    /\ life.cleanup
    /\ ev.op = "return"
    /\ ev.before.op = "cleanup"
    /\ ev.preAns = Null
    /\ lastAnswerId = Paris

(* C1: for one session, at most one classification call (processText awaiting the
   provider) is in flight at any time. *)
C1_OneCallInFlight == Len(inflight) <= 1

(* C2: in every reachable state 0 <= lastProcessedLength <= length of
   accumulatedTranscript. *)
C2_OffsetWithinBuffer ==
    0 <= lastProcessedLength /\ lastProcessedLength <= Len(accumulatedTranscript)

(* C2, amended: lastProcessedLength is never negative, and right after a handler
   that called processText it is at most the length of the text of that call. *)
C2_OffsetWithinSentText ==
    /\ 0 <= lastProcessedLength
    /\ (Handled /\ ev.called) => lastProcessedLength <= Len(ev.sent)

C2_Witness ==
    /\ Handled /\ ev.called /\ ~ev.isFinal
    /\ lastProcessedLength > Len(accumulatedTranscript)
    /\ lastProcessedLength = Len(ev.sent)

(* C3: in a fresh session a non-final segment A followed by a final segment B
   gives exactly one processText call, with the text A joined to B by a space. *)
C3_PairSendsJoinedText ==
    FreshPartialThenFinal =>
        /\ ~ev.before.called /\ ev.called
        /\ ev.sent = Joined(ev.before.text, ev.text)

(* C3, amended: in a fresh session a non-final segment A without '.', '?' or '!'
   followed by a final segment B gives exactly one processText call, and its text
   is B alone. *)
C3_PairSendsFinalAlone ==
    (FreshPartialThenFinal /\ \A i \in 1..Len(ev.before.text) :
                                  ev.before.text[i] \notin Punctuation) =>
        /\ ~ev.before.called /\ ev.called
        /\ ev.sent = ev.text

C3_Witness ==
    /\ FreshPartialThenFinal
    /\ ev.before.text = CapitalOf /\ ev.text = NoYes
    /\ ev.called /\ ev.sent = NoYes

(* C4: every segment with non-empty text, final or not, leaves
   accumulatedTranscript equal to its previous value joined with the segment's
   text by one space (the text alone when the buffer was empty). *)
C4_EverySegmentAppended ==
    (Handled /\ NonBlank(ev.text)) =>
        accumulatedTranscript = Joined(ev.preAcc, ev.text)

(* C4, amended: a final segment with non-blank text whose full text lacks the cue
   leaves accumulatedTranscript equal to its previous value joined with the
   segment's text by one space; a non-final or blank segment leaves it unchanged. *)
C4_FinalSegmentAppended ==
    Handled =>
        IF ev.isFinal /\ NonBlank(ev.text)
        THEN HasCue(Joined(ev.preAcc, ev.text))
                \/ accumulatedTranscript = Joined(ev.preAcc, ev.text)
        ELSE accumulatedTranscript = ev.preAcc

C4_Witness ==
    /\ Handled /\ ev.isFinal /\ ev.preAcc # <<>> /\ NonBlank(ev.text)
    /\ accumulatedTranscript = ev.preAcc \o <<" ">> \o ev.text

(* C5: an Answer outcome whose entity equals lastAnswerId does not update the
   answer display. *)
C5_DuplicateAnswerNotShown ==
    (ev.op = "return" /\ ev.result # Null /\ ev.result = ev.preAns) =>
        ev.shown = "none"

(* C6: a segment invokes processText if and only if it is final or the last
   sentence boundary of the full text lies strictly beyond lastProcessedLength. *)
C6_DispatchDecision ==
    Handled =>
        (ev.called <=>
            (ev.isFinal \/ SentenceBoundary(FullTextOf(ev.preAcc, ev.text)) > ev.preLpl))

C6_Witness ==
    /\ Handled /\ ~ev.isFinal /\ ev.called
    /\ ev.preLpl > 0
    /\ SentenceBoundary(FullTextOf(ev.preAcc, ev.text)) > ev.preLpl

(* C7: no request is sent for a text whose trimmed length is below 10. *)
C7_NoRequestForShortText ==
    /\ (Handled /\ ev.called /\ Len(trim(ev.sent)) < 10) => ~ev.fetched
    /\ \A i \in 1..Len(inflight) : Len(trim(inflight[i])) >= 10

C7_Witness ==
    /\ Handled /\ ev.called /\ apiKey
    /\ ev.sent # <<>> /\ Len(trim(ev.sent)) < 10
    /\ ~ev.fetched

(* C8: a final segment whose full text contains the cue is still dispatched with
   that text and leaves accumulatedTranscript empty; a segment handled on an empty
   buffer has its own text as full text. *)
C8_CueClearsBuffer ==
    /\ (Handled /\ ev.isFinal /\ HasCue(FullTextOf(ev.preAcc, ev.text))) =>
           /\ ev.called /\ HasCue(ev.sent)
           /\ accumulatedTranscript = <<>>
    /\ (Handled /\ ev.preAcc = <<>> /\ NonBlank(ev.text)) => ev.fullText = ev.text

C8_Witness ==
    /\ Handled /\ ev.isFinal /\ ev.text = ForTen /\ ev.preAcc # <<>>
    /\ ev.called /\ accumulatedTranscript = <<>>

(* C9: a non-final dispatch sends only the prefix up to the last sentence
   boundary, and after any dispatch lastProcessedLength is the length of the text
   sent. *)
C9_CheckpointIsSentLength ==
    (Handled /\ ev.called) =>
        /\ lastProcessedLength = Len(ev.sent)
        /\ ~ev.isFinal =>
               ev.sent = SubSeq(FullTextOf(ev.preAcc, ev.text), 1,
                                SentenceBoundary(FullTextOf(ev.preAcc, ev.text)))

(* C9, amended: every dispatch sends the whole full text; afterwards
   lastProcessedLength is its length if the segment is final and its last sentence
   boundary otherwise. *)
C9_CheckpointOfFullText ==
    (Handled /\ ev.called) =>
        /\ ev.sent = FullTextOf(ev.preAcc, ev.text)
        /\ lastProcessedLength =
               IF ev.isFinal THEN Len(ev.sent) ELSE SentenceBoundary(ev.sent)

C9_Witness ==
    /\ Handled /\ ev.called /\ ~ev.isFinal
    /\ 0 < lastProcessedLength /\ lastProcessedLength < Len(ev.sent)

(* C10: when the silence timer fires, accumulatedTranscript is empty,
   lastProcessedLength is 0 and lastAnswerId is null afterwards. *)
C10_SilenceReset ==
    ev.op = "timer" =>
        /\ accumulatedTranscript = <<>>
        /\ lastProcessedLength = 0
        /\ lastAnswerId = Null

C10_Witness ==
    /\ ev.op = "timer"
    /\ ev.preAcc # <<>> /\ ev.preLpl > 0 /\ ev.preAns # Null
    /\ accumulatedTranscript = <<>> /\ lastAnswerId = Null

(* C31: in the per-utterance handler, a segment whose text is shorter than
   lastProcessedLength has the checkpoint taken as 0 in the dispatch decision:
   after the synchronous part of every handler lastProcessedLength is at most the
   length of the segment's text (and is the text's length after a final segment,
   its last sentence boundary after a dispatched non-final one, 0 after a shorter
   text that is not dispatched), and a shorter text that has a complete sentence
   is dispatched. *)
C31_CheckpointWithinText ==
    Handled =>
        /\ lastProcessedLength <= Len(ev.text)
        /\ (Len(ev.text) < ev.preLpl) =>
               /\ ev.called <=> (ev.isFinal \/ SentenceBoundary(ev.text) > 0)
               /\ ~ev.called => lastProcessedLength = 0
        /\ ev.called =>
               /\ ev.sent = ev.text
               /\ lastProcessedLength =
                      IF ev.isFinal THEN Len(ev.text) ELSE SentenceBoundary(ev.text)

C31_Witness ==
    /\ Handled /\ ~ev.isFinal
    /\ Len(ev.text) < ev.preLpl
    /\ SentenceBoundary(ev.text) > 0
    /\ ev.called
    /\ lastProcessedLength = SentenceBoundary(ev.text)
    /\ lastProcessedLength < ev.preLpl

====
